---- MODULE Spec2Model ----
(***************************************************************************)
(* The OCR job-dispatch layer of main.go: the upload handler (dispatcher), *)
(* the buffered job queue ocrWorkerPool, the three ocrWorker goroutines,   *)
(* processOCRRequest with its engine goroutine, the engine lock ocrMutex   *)
(* and the temporary files.                                                *)
(*                                                                         *)
(* In Spec and SpecLoad time is abstracted: a timer (time.After,           *)
(* context.WithTimeout) is an event that may fire at any moment at which   *)
(* the select that waits on it is still pending.  SpecTimed counts time in *)
(* units of 5 s and fires each timer when it is due.                       *)
(***************************************************************************)
EXTENDS Integers, Sequences, FiniteSets, TLC

\* ---- program constants -------------------------------------------------
BiggerQueue == 10 + 1   \* (mutation of QueueCap: room for one job more)
QueueCap   == 10     \* make(chan OCRRequest, 10)
NumWorkers == 3      \* for i := 0; i < 3; i++ { go ocrWorker() }
Unbuffered == 1 - 1  \* (mutation of ReplyCap: make(chan OCRResponse))
ReplyCap   == 1      \* responseCh := make(chan OCRResponse, 1)
ResultCap  == 1      \* resultCh := make(chan OCRResponse, 1)
ProcUnits  == 7      \* time.After(35 * time.Second), in units of 5 s
WriteUnits == 6      \* WriteTimeout: 30 * time.Second, in units of 5 s
CtxLonger  == ProcUnits + 1   \* (mutation of CtxUnits: a deadline of 40 s)
CtxUnits   == 6      \* context.WithTimeout(..., 30*time.Second), in units of 5 s

\* ---- bounds of the model -----------------------------------------------
NumReq     == 11   \* requests of a run under load (SpecLoad)
MaxReq     == 4    \* requests of a run of Spec
MaxFaults  == 1    \* irregular events of a run of Spec: a request refused before
                   \* the queue, a firing of the 35 s or of the 30 s timer, an
                   \* engine error, a file-system error, a clock read that repeats
TimedReq   == 2    \* requests of a run of SpecTimed
TimedFaults == 1   \* irregular events of a run of SpecTimedFaulty

Reqs    == 1..NumReq
Nil     == "nil"
Off     == 0 - 1   \* a timer that is not running

VARIABLES
    mainPc,          \* main(): "boot" before initOnce.Do(initOCR), "ports" in
                     \*   findAvailablePort, "listen" before ListenAndServe, then
                     \*   "serving"; "fatal" after log.Fatal
    bound,           \* environment: the ports other processes hold
    tried,           \* findAvailablePort: ports of the list found in use so far
    port,            \* main(): the port findAvailablePort returned, 0 before
    tesseractFound,  \* var tesseractFound bool
    ocrClient,       \* var ocrClient ocr.Ocr: Nil or "client"
    st,              \* per request: where its uploadHandler run stands
    upl,             \* per request: the OCRRequest its handler built, else NoReq
    resp,            \* per request: the HTTP responses its handler has written
    ocrWorkerPool,   \* the job queue: sequence of OCRRequest
    responseCh,      \* per request: its reply channel [made, buf]
    idle,            \* number of workers blocked in "for req := range ocrWorkerPool"
    wpc,             \* per job: where the worker that dequeued it stands:
                     \*   "none", "process", "select", "send", "done"
    wreq,            \* per job: the OCRRequest its worker dequeued (req)
    wtemp,           \* per job: tempFile of its processOCRRequest
    wres,            \* per job: the result its worker is to send (result)
    gpc,             \* per job: its engine goroutine: "none","rlock","call","done","blocked"
    gfile,           \* per job: tempFile captured by its engine goroutine
    gimg,            \* per job: what the running engine call read from tempFile
    resultCh,        \* per job: resultCh of its processOCRRequest [made, buf]
    ocrMutex,        \* sync.RWMutex: [readers |-> Nat, writer |-> BOOLEAN]
    files,           \* the temporary files: set of <<name, content>>
    clock,           \* the value the last time.Now().UnixNano() returned
    procTimer,       \* per request: units left on the 35 s timer of its handler, or Off
    ctxTimer,        \* per job: units left to the 30 s deadline of its ctx, or Off
    arrivals,        \* environment: requests that may still arrive
    faults,          \* environment: irregular events that may still happen
    hist             \* history: what happened to each job (observation only)

reqVars    == <<st, upl, resp>>
workerVars == <<idle, wpc, wreq, wtemp, wres>>
engineVars == <<gpc, gfile, gimg, resultCh, ocrMutex>>
initVars   == <<mainPc, tesseractFound, ocrClient, bound, tried, port>>
timerVars  == <<procTimer, ctxTimer>>
vars == <<mainPc, bound, tried, port, tesseractFound, ocrClient, st, upl, resp, ocrWorkerPool,
          responseCh, idle, wpc, wreq, wtemp, wres, gpc, gfile, gimg, resultCh,
          ocrMutex, files, clock, procTimer, ctxTimer, arrivals, faults, hist>>

\* ---- text ---------------------------------------------------------------
\* A text is a sequence of one-character strings.
WhiteSpace == {" ", "\t", "\n", "\r"}

RECURSIVE TrimLeft(_)
TrimLeft(s) ==
    IF s # <<>> /\ Head(s) \in WhiteSpace THEN TrimLeft(Tail(s)) ELSE s

RECURSIVE TrimRight(_)
TrimRight(s) ==
    IF s # <<>> /\ s[Len(s)] \in WhiteSpace
    THEN TrimRight(SubSeq(s, 1, Len(s) - 1)) ELSE s

\* strings.TrimSpace
TrimSpace(s) == TrimRight(TrimLeft(s))

\* "No text detected in the image."
NoTextDetected == <<"No text detected in the image.">>

\* ---- file names ---------------------------------------------------------
Lower(c) ==
    CASE c = "P" -> "p" [] c = "N" -> "n" [] c = "G" -> "g"
      [] c = "J" -> "j" [] c = "T" -> "t" [] c = "X" -> "x"
      [] c = "A" -> "a" [] c = "B" -> "b" [] c = "E" -> "e"
      [] c = "F" -> "f" [] c = "I" -> "i" [] c = "M" -> "m"
      [] OTHER -> c

\* strings.ToLower
ToLower(s) == [i \in 1..Len(s) |-> Lower(s[i])]

\* filepath.Ext: the suffix beginning at the final dot of the final path
\* element; empty if there is no dot.
Ext(name) ==
    LET stops == {i \in 1..Len(name) : name[i] \in {".", "/"}}
        last  == CHOOSE i \in stops : \A k \in stops : k <= i
    IN  IF stops = {} \/ name[last] = "/" THEN <<>>
        ELSE SubSeq(name, last, Len(name))

validExts ==
    { <<".", "p", "n", "g">>, <<".", "j", "p", "g">>, <<".", "j", "p", "e", "g">>,
      <<".", "g", "i", "f">>, <<".", "b", "m", "p">>, <<".", "t", "i", "f", "f">> }

\* (mutation of isValidImageType: the extension is compared as it is written)
isValidImageTypeExact(filename) == Ext(filename) \in validExts

isValidImageType(filename) == ToLower(Ext(filename)) \in validExts

\* ---- the workload -------------------------------------------------------
\* File names a client may upload under.
Filenames == { <<"a", ".", "P", "N", "G">>, <<"a", ".", "t", "x", "t">> }

\* File names to try the type check on: a stem, then an ending that is a
\* supported extension in lower case, in upper case or in mixed case, or is
\* something else.
Upper(c) ==
    CASE c = "p" -> "P" [] c = "n" -> "N" [] c = "g" -> "G"
      [] c = "j" -> "J" [] c = "t" -> "T" [] c = "x" -> "X"
      [] c = "a" -> "A" [] c = "b" -> "B" [] c = "e" -> "E"
      [] c = "f" -> "F" [] c = "i" -> "I" [] c = "m" -> "M"
      [] OTHER -> c

ToUpper(s) == [i \in 1..Len(s) |-> Upper(s[i])]
Capitalized(s) == [i \in 1..Len(s) |-> IF i = 2 THEN Upper(s[i]) ELSE s[i]]

Stems ==
    { <<>>, <<"a">>, <<"a", ".", "b">>, <<"d", "/", "a">>, <<"d", ".", "e", "/", "a">>,
      <<"a", ".", "p", "n", "g">>, <<"a", ".", "t", "x", "t">> }

Endings ==
    validExts \cup {ToUpper(e) : e \in validExts} \cup {Capitalized(e) : e \in validExts}
    \cup { <<>>, <<".">>, <<".", "t", "x", "t">>, <<".", "t", "i", "f">>,
           <<".", "p", "n">>, <<".", "p", "n", "g", "x">>, <<"p", "n", "g">>,
           <<".", "p", "n", "g", ".">>, <<".", "p", "n", "g", "/", "a">>,
           <<".", "j", "p", "g", ".", "e", "x", "e">>, <<".", "P", "D", "F">> }

TestNames == {s \o e : s \in Stems, e \in Endings}

\* Request r uploads image ImageOf(r); two consecutive requests carry the
\* same bytes.
ImageOf(r) == (r + 1) \div 2

\* The engine is a function of the file content: image 2 shows no text.
EngineText(img) ==
    IF img = 2 THEN <<" ", "\n">> ELSE <<" ", "t", ToString(img), "\n">>

\* ---- values -------------------------------------------------------------
OCRRequest(bytes, name, ch) ==
    [ImageBytes |-> bytes, Filename |-> name, ResponseCh |-> ch]

OCRResponse(text, err) == [Text |-> text, Err |-> err]

NoReq  == OCRRequest(0, <<>>, 0)       \* no request held
NoRes  == OCRResponse(<<>>, "unset")   \* no result held
NoFile == <<>>                         \* no file name held
NoChan == [made |-> FALSE, buf |-> <<>>]
MakeChan == [made |-> TRUE, buf |-> <<>>]
ChanSend(ch, v) == [ch EXCEPT !.buf = Append(@, v)]
ChanRecv(ch) == [ch EXCEPT !.buf = Tail(@)]

\* A receive from the buffer of a channel takes the oldest element.
Newest(buf) == buf[Len(buf)]    \* (mutation of Oldest: last in, first out)
Oldest(buf) == Head(buf)
Kept(buf)   == buf              \* (mutation of Rest: the element is left in place)
Rest(buf)   == Tail(buf)

\* ---- temporary files ----------------------------------------------------
FileNames == {f[1] : f \in files}
FileExists(name) == name \in FileNames
FileContent(name) == (CHOOSE f \in files : f[1] = name)[2]
\* os.Create truncates a file that exists, then the bytes are written.
WriteFile(name, bytes) == {f \in files : f[1] # name} \cup {<<name, bytes>>}
RemoveFile(name) == {f \in files : f[1] # name}

NoHist ==
    [enq    |-> <<>>,                     \* jobs in the order their enqueue completed
     deq    |-> <<>>,                     \* jobs in the order they were dequeued
     served |-> [r \in Reqs |-> 0],       \* Results sent by the worker of each job
     sent   |-> [r \in Reqs |-> 0],       \* Results sent on each reply channel
     reads  |-> [r \in Reqs |-> 0],       \* receives of each handler from its channel
     calls  |-> [r \in Reqs |-> 0],       \* engine calls started for each job
     temps  |-> [r \in Reqs |-> 0],       \* temporary files created for each job
     waited |-> [r \in Reqs |-> 0],       \* units each handler has waited since admission
     method |-> [r \in Reqs |-> "none"],  \* the method of each request
     upname |-> [r \in Reqs |-> NoFile],  \* the file name of each request
     late   |-> [r \in Reqs |-> FALSE],   \* whether 5 s had passed when the job was dequeued
     result |-> [r \in Reqs |-> NoRes],   \* the Result the worker of each job sent
     io     |-> [r \in Reqs |-> "none"],  \* how the write of each job's temporary file ended
     name   |-> [r \in Reqs |-> NoFile],  \* the name each job created its temporary file under
     removes   |-> [r \in Reqs |-> 0],    \* calls of os.Remove(tempFile) made for each job
     removeErr |-> [r \in Reqs |-> FALSE],\* whether such a call returned an error
     early  |-> [r \in Reqs |-> FALSE],   \* whether the engine call returned before 30 s had passed
     held   |-> [r \in Reqs |-> 0],       \* units the worker of each job has held it so far
     probes |-> <<>>,                     \* whether each net.Listen of findAvailablePort succeeded
     engineFaults |-> 0]                  \* engine calls that failed or overran 30 s

Count(S) == Cardinality(S)

\* The program as init() leaves it: the queue made, the workers started.
Boot ==
    /\ mainPc = "boot"
    /\ tried = 0
    /\ port = 0
    /\ tesseractFound = FALSE
    /\ ocrClient = Nil
    /\ st = [r \in Reqs |-> "none"]
    /\ upl = [r \in Reqs |-> NoReq]
    /\ resp = [r \in Reqs |-> <<>>]
    /\ ocrWorkerPool = <<>>
    /\ responseCh = [r \in Reqs |-> NoChan]
    /\ idle = NumWorkers
    /\ wpc = [j \in Reqs |-> "none"]
    /\ wreq = [j \in Reqs |-> NoReq]
    /\ wtemp = [j \in Reqs |-> NoFile]
    /\ wres = [j \in Reqs |-> NoRes]
    /\ gpc = [r \in Reqs |-> "none"]
    /\ gfile = [r \in Reqs |-> NoFile]
    /\ gimg = [r \in Reqs |-> 0]
    /\ resultCh = [r \in Reqs |-> NoChan]
    /\ ocrMutex = [readers |-> 0, writer |-> FALSE]
    /\ files = {}
    /\ clock = 0
    /\ procTimer = [r \in Reqs |-> Off]
    /\ ctxTimer = [j \in Reqs |-> Off]
    /\ hist = NoHist

Init ==
    /\ Boot
    /\ bound = {}
    /\ arrivals = MaxReq
    /\ faults = MaxFaults

\* ---- main ---------------------------------------------------------------
\* initOnce.Do(initOCR): checkTesseractInstallation finds the engine or not,
\* ocr.New succeeds or not; main goes on to find a port.
InitOCR ==
    /\ mainPc = "boot"
    /\ \E found \in BOOLEAN, newOk \in BOOLEAN :
          IF ~found
          THEN /\ tesseractFound' = FALSE
               /\ ocrClient' = ocrClient
          ELSE IF ~newOk
          THEN /\ ocrClient' = Nil
               /\ tesseractFound' = FALSE
          ELSE /\ ocrClient' = "client"
               /\ tesseractFound' = TRUE
    /\ mainPc' = "ports"
    /\ UNCHANGED <<bound, tried, port, reqVars, ocrWorkerPool, responseCh, workerVars,
                   engineVars, files, clock, timerVars, arrivals, faults, hist>>

\* preferredPorts := []int{9000, 8000, 7000}
preferredPorts == <<9000, 8000, 7000>>
Ports == {preferredPorts[i] : i \in DOMAIN preferredPorts}

\* One turn of the loop of findAvailablePort: net.Listen on the next port of
\* the list.  If it succeeds the listener is closed and the port returned;
\* if it fails the loop goes on, and after the last port the function returns
\* an error, on which main ends by log.Fatalf.
findAvailablePort ==
    /\ mainPc = "ports"
    /\ LET p == preferredPorts[tried + 1]
           free == p \notin bound
       IN  /\ hist' = [hist EXCEPT !.probes = Append(@, free)]
           /\ IF free
              THEN /\ port' = p
                   /\ mainPc' = "listen"
                   /\ tried' = tried
              ELSE /\ tried' = tried + 1
                   /\ port' = port
                   /\ mainPc' = IF tried + 1 = Len(preferredPorts) THEN "fatal"
                                 ELSE "ports"
    /\ UNCHANGED <<bound, tesseractFound, ocrClient, reqVars, ocrWorkerPool, responseCh,
                   workerVars, engineVars, files, clock, timerVars, arrivals, faults>>

\* server.ListenAndServe() with Addr ":" + port: the server binds the port
\* and serves, or the bind fails and main ends by log.Fatal.
ListenAndServe ==
    /\ mainPc = "listen"
    /\ mainPc' = IF port \in bound THEN "fatal" ELSE "serving"
    /\ UNCHANGED <<bound, tried, port, tesseractFound, ocrClient, reqVars, ocrWorkerPool,
                   responseCh, workerVars, engineVars, files, clock, timerVars,
                   arrivals, faults, hist>>

\* Another process binds a port that nobody holds, or gives up one it holds.
OtherBinds(p) ==
    /\ p \notin bound
    /\ ~(mainPc = "serving" /\ p = port)
    /\ bound' = bound \cup {p}
    /\ UNCHANGED <<mainPc, tried, port, tesseractFound, ocrClient, reqVars, ocrWorkerPool,
                   responseCh, workerVars, engineVars, files, clock, timerVars,
                   arrivals, faults, hist>>

OtherReleases(p) ==
    /\ p \in bound
    /\ bound' = bound \ {p}
    /\ UNCHANGED <<mainPc, tried, port, tesseractFound, ocrClient, reqVars, ocrWorkerPool,
                   responseCh, workerVars, engineVars, files, clock, timerVars,
                   arrivals, faults, hist>>

\* ---- uploadHandler ------------------------------------------------------
\* (mutation of Serving: the server listens before initOCR has run)
ServingEarly == TRUE

\* Handlers run once main has reached server.ListenAndServe(), which follows
\* initOnce.Do(initOCR).
Serving == mainPc = "serving"

\* What a client sends: the method, whether the multipart form parses and
\* holds a readable file "image", and the file name.
Uploads ==
    [method : {"POST", "GET"}, form : {"ok", "bad"}, name : Filenames]

Terminal == {"redirected", "engine_unavailable", "rejected",
             "admission_rejected", "completed", "timed_out"}

\* (mutation of Precheck: no check of the engine)
PrecheckNoEngine(u) ==
    IF u.method # "POST" THEN <<"redirected", "redirect">>
    ELSE IF u.form # "ok" THEN <<"rejected", "bad_request">>
    ELSE IF ~isValidImageType(u.name) THEN <<"rejected", "invalid_type">>
    ELSE <<"validated", "">>

\* (mutation of Precheck: no check of the file type)
PrecheckNoType(u) ==
    IF u.method # "POST" THEN <<"redirected", "redirect">>
    ELSE IF ~tesseractFound \/ ocrClient = Nil
         THEN <<"engine_unavailable", "not_configured">>
    ELSE IF u.form # "ok" THEN <<"rejected", "bad_request">>
    ELSE <<"validated", "">>

\* The checks of the handler in their order, lines 762-800: where the handler
\* goes and, if it returns, the response it writes.
Precheck(u) ==
    IF u.method # "POST" THEN <<"redirected", "redirect">>
    ELSE IF ~tesseractFound \/ ocrClient = Nil
         THEN <<"engine_unavailable", "not_configured">>
    ELSE IF u.form # "ok" THEN <<"rejected", "bad_request">>
    ELSE IF ~isValidImageType(u.name) THEN <<"rejected", "invalid_type">>
    ELSE <<"validated", "">>

\* The handler up to its first select: method check, engine check, form
\* parsing, file-type validation, reading the bytes, making the reply channel.
\* Requests are numbered in the order in which their handlers reach the first
\* select, and a handler reaches it when the one before has left it: with
\* room in the buffer the send does not wait, and a handler that waits on a
\* full buffer touches nothing but its own timer.
Upload(r, U) ==
    /\ Serving
    /\ arrivals > 0
    /\ arrivals' = arrivals - 1
    /\ st[r] = "none"
    /\ r > 1 => st[r - 1] # "none"
    /\ \A q \in Reqs : st[q] # "validated"
    /\ \E u \in U :
          LET early == Precheck(u)
              cost == IF early[1] \in {"redirected", "rejected"} THEN 1 ELSE 0
          IN  /\ faults >= cost
              /\ faults' = faults - cost
              /\ IF early[1] # "validated"
                 THEN /\ st' = [st EXCEPT ![r] = early[1]]
                      /\ resp' = [resp EXCEPT ![r] = Append(@, early[2])]
                      /\ UNCHANGED <<upl, responseCh>>
                 ELSE /\ st' = [st EXCEPT ![r] = "validated"]
                      /\ responseCh' = [responseCh EXCEPT ![r] = MakeChan]
                      /\ upl' = [upl EXCEPT ![r] = OCRRequest(ImageOf(r), u.name, r)]
                      /\ UNCHANGED resp
              /\ hist' = [hist EXCEPT !.method[r] = u.method, !.upname[r] = u.name]
    /\ UNCHANGED <<initVars, ocrWorkerPool, workerVars, engineVars, files, clock,
                   timerVars>>

UploadStart(r) == Upload(r, Uploads)

\* An upload under any of the file names TestNames.
TestUploads == [method : {"POST"}, form : {"ok"}, name : TestNames]
UploadNamed(r) == Upload(r, TestUploads)

\* (mutation of Admit: the second select has no timer case)
AdmitNoTimer(r) ==
    /\ ocrWorkerPool' = Append(ocrWorkerPool, upl[r])
    /\ st' = [st EXCEPT ![r] = "queued"]
    /\ hist' = [hist EXCEPT !.enq = Append(@, r)]
    /\ UNCHANGED <<resp, timerVars>>

\* case ocrWorkerPool <- OCRRequest{...}: the job enters the buffer, and the
\* handler enters its second select, where time.After(35 s) starts its timer.
Admit(r) ==
    /\ ocrWorkerPool' = Append(ocrWorkerPool, upl[r])
    /\ st' = [st EXCEPT ![r] = "queued"]
    /\ procTimer' = [procTimer EXCEPT ![r] = ProcUnits]
    /\ hist' = [hist EXCEPT !.enq = Append(@, r)]
    /\ UNCHANGED <<resp, ctxTimer>>

\* case <-time.After(5 * time.Second): "service busy", and return.
Reject(r) ==
    /\ st' = [st EXCEPT ![r] = "admission_rejected"]
    /\ resp' = [resp EXCEPT ![r] = Append(@, "busy")]
    /\ UNCHANGED <<ocrWorkerPool, timerVars, hist>>

\* (mutation of Admission: no timer case, the send waits for room)
AdmissionNoTimer(r) ==
    /\ st[r] = "validated"
    /\ Len(ocrWorkerPool) < QueueCap
    /\ Admit(r)
    /\ UNCHANGED <<initVars, upl, responseCh, workerVars, engineVars, files, clock,
                   arrivals, faults>>

\* (mutation of Admission: the timer case answers "service busy" for a job
\* that is sent all the same)
AdmissionBoth(r) ==
    /\ st[r] = "validated"
    /\ IF Len(ocrWorkerPool) < QueueCap
       THEN Admit(r)
       ELSE /\ ocrWorkerPool' = Append(ocrWorkerPool, upl[r])
            /\ st' = [st EXCEPT ![r] = "admission_rejected"]
            /\ resp' = [resp EXCEPT ![r] = Append(@, "busy")]
            /\ hist' = [hist EXCEPT !.enq = Append(@, r)]
            /\ UNCHANGED timerVars
    /\ UNCHANGED <<initVars, upl, responseCh, workerVars, engineVars, files, clock,
                   arrivals, faults>>

\* The first select.  The send completes as soon as the buffer has room; the
\* timer fires only if the send has been blocked on a full buffer all along.
Admission(r) ==
    /\ st[r] = "validated"
    /\ IF Len(ocrWorkerPool) < QueueCap THEN Admit(r) ELSE Reject(r)
    /\ UNCHANGED <<initVars, upl, responseCh, workerVars, engineVars, files, clock,
                   arrivals, faults>>

\* (mutation of ProcTimeout: the response is written but the handler goes on
\* waiting for the result)
ProcTimeoutNoReturn(r) ==
    /\ st[r] = "queued"
    /\ faults >= 1
    /\ faults' = faults - 1
    /\ resp' = [resp EXCEPT ![r] = Append(@, "processing_timeout")]
    /\ procTimer' = [procTimer EXCEPT ![r] = Off]
    /\ UNCHANGED <<initVars, arrivals, st, upl, ocrWorkerPool, responseCh,
                   workerVars, engineVars, files, clock, ctxTimer, hist>>

\* (mutation of ProcTimeout: the handler withdraws its job from the queue)
ProcTimeoutCancel(r) ==
    /\ st[r] = "queued"
    /\ faults >= 1
    /\ faults' = faults - 1
    /\ st' = [st EXCEPT ![r] = "timed_out"]
    /\ resp' = [resp EXCEPT ![r] = Append(@, "processing_timeout")]
    /\ procTimer' = [procTimer EXCEPT ![r] = Off]
    /\ ocrWorkerPool' = SelectSeq(ocrWorkerPool, LAMBDA q : q.ResponseCh # r)
    /\ UNCHANGED <<initVars, arrivals, upl, responseCh, workerVars,
                   engineVars, files, clock, ctxTimer, hist>>

\* Second select, case <-time.After(35 * time.Second).
ProcTimeout(r) ==
    /\ st[r] = "queued"
    /\ faults >= 1
    /\ faults' = faults - 1
    /\ st' = [st EXCEPT ![r] = "timed_out"]
    /\ resp' = [resp EXCEPT ![r] = Append(@, "processing_timeout")]
    /\ procTimer' = [procTimer EXCEPT ![r] = Off]
    /\ UNCHANGED <<initVars, arrivals, upl, ocrWorkerPool, responseCh, workerVars,
                   engineVars, files, clock, ctxTimer, hist>>

\* ---- ocrWorker ----------------------------------------------------------
\* The workers run the same loop and differ in nothing but the job they
\* hold, so the state of a busy worker is kept under the job it dequeued
\* (the job is named by its reply channel) and the workers that wait for a
\* job are counted.

\* for req := range ocrWorkerPool: a waiting worker receives the head of the
\* buffer.
Dequeue ==
    /\ idle > 0
    /\ ocrWorkerPool # <<>>
    /\ LET req == Oldest(ocrWorkerPool)
           j   == req.ResponseCh
       IN  /\ wreq' = [wreq EXCEPT ![j] = req]
           /\ wpc' = [wpc EXCEPT ![j] = "process"]
           /\ hist' = [hist EXCEPT !.deq = Append(@, j), !.late[j] = hist.waited[j] > 0]
    /\ ocrWorkerPool' = Rest(ocrWorkerPool)
    /\ idle' = idle - 1
    /\ UNCHANGED <<initVars, arrivals, reqVars, responseCh, wtemp, wres, engineVars, files,
                   clock, timerVars, faults>>

\* fmt.Sprintf("temp_%d_%s", time.Now().UnixNano(), filename)
TempName(now, filename) == <<now, filename>>

\* time.Now().UnixNano() as read for job j.  Clock values are used in file
\* names only, so they matter up to equality: a read returns a value no
\* earlier read returned (it is named after the job that reads) or,
\* irregularly, the value of the previous read once more.  The previous
\* value is kept only while a repeat can still happen.
ClockReads(j) == {j} \cup (IF clock > 0 THEN {clock} ELSE {})

\* (mutation of Aborts: an error of the write is ignored)
AbortsOnCreate(io) == io = "create_err"

\* if err := writeImageFileOptimized(...); err != nil { return ... }: the job
\* is given up when os.Create or the write returned an error.
Aborts(io) == io # "ok"

\* processOCRRequest up to its select: the nil check, the temporary file
\* name, writeImageFileOptimized, the deferred calls, resultCh and the start
\* of the engine goroutine.
ProcessStart(j) ==
    /\ wpc[j] = "process"
    /\ IF ocrClient = Nil
       THEN /\ wres' = [wres EXCEPT ![j] = OCRResponse(<<>>, "not_initialized")]
            /\ wpc' = [wpc EXCEPT ![j] = "send"]
            /\ UNCHANGED <<wtemp, engineVars, files, clock, ctxTimer, faults, hist>>
       ELSE \E now \in ClockReads(j), io \in {"ok", "create_err", "write_err"} :
            LET tempFile == TempName(now, wreq[j].Filename)
                cost == (IF now = clock THEN 1 ELSE 0) + (IF io # "ok" THEN 1 ELSE 0)
            IN  /\ faults >= cost
                /\ faults' = faults - cost
                /\ clock' = IF faults - cost > 0 THEN now ELSE 0
                /\ files' = IF io = "create_err" THEN files
                            ELSE WriteFile(tempFile, wreq[j].ImageBytes)
                /\ hist' = IF io = "create_err"
                           THEN [hist EXCEPT !.io[j] = io]
                           ELSE [hist EXCEPT !.io[j] = io, !.temps[j] = @ + 1,
                                             !.name[j] = tempFile]
                /\ IF Aborts(io)
                   THEN /\ wres' = [wres EXCEPT ![j] = OCRResponse(<<>>, "tempfile")]
                        /\ wpc' = [wpc EXCEPT ![j] = "send"]
                        /\ UNCHANGED <<wtemp, engineVars, ctxTimer>>
                   ELSE /\ wtemp' = [wtemp EXCEPT ![j] = tempFile]
                        /\ resultCh' = [resultCh EXCEPT ![j] = MakeChan]
                        /\ gpc' = [gpc EXCEPT ![j] = "rlock"]
                        /\ gfile' = [gfile EXCEPT ![j] = tempFile]
                        /\ ctxTimer' = [ctxTimer EXCEPT ![j] = CtxUnits]
                        /\ wpc' = [wpc EXCEPT ![j] = "select"]
                        /\ UNCHANGED <<wres, gimg, ocrMutex>>
    /\ UNCHANGED <<initVars, arrivals, reqVars, ocrWorkerPool, responseCh, idle, wreq,
                   procTimer>>

\* (mutation of Return: an error of os.Remove becomes the Result)
ReturnRemoveError(j, result, removed, h) ==
    /\ wres' = [wres EXCEPT ![j] = IF removed THEN result
                                   ELSE OCRResponse(<<>>, "remove_failed")]
    /\ files' = IF removed THEN RemoveFile(wtemp[j]) ELSE files
    /\ hist' = [h EXCEPT !.removes[j] = @ + 1,
                         !.removeErr[j] = ~removed \/ ~FileExists(wtemp[j])]
    /\ wtemp' = [wtemp EXCEPT ![j] = NoFile]
    /\ ctxTimer' = [ctxTimer EXCEPT ![j] = Off]
    /\ wpc' = [wpc EXCEPT ![j] = "send"]

\* (mutation of Return: the function returns the timeout error whatever the
\* select chose)
ReturnTimeoutAlways(j, result, removed, h) ==
    /\ wres' = [wres EXCEPT ![j] = OCRResponse(<<>>, "timeout")]
    /\ files' = IF removed THEN RemoveFile(wtemp[j]) ELSE files
    /\ hist' = [h EXCEPT !.removes[j] = @ + 1,
                         !.removeErr[j] = ~removed \/ ~FileExists(wtemp[j])]
    /\ wtemp' = [wtemp EXCEPT ![j] = NoFile]
    /\ ctxTimer' = [ctxTimer EXCEPT ![j] = Off]
    /\ wpc' = [wpc EXCEPT ![j] = "send"]

\* (mutation of Return: no deferred os.Remove)
ReturnKeepFile(j, result, removed, h) ==
    /\ wres' = [wres EXCEPT ![j] = result]
    /\ files' = files
    /\ hist' = h
    /\ wtemp' = [wtemp EXCEPT ![j] = NoFile]
    /\ ctxTimer' = [ctxTimer EXCEPT ![j] = Off]
    /\ wpc' = [wpc EXCEPT ![j] = "send"]

\* The end of processOCRRequest: the select has chosen `result`; the deferred
\* calls run (cancel(), then os.Remove(tempFile), whose failure is logged
\* only) and the function returns.  `removed` is whether the file system
\* carries out the removal; os.Remove also fails when no file of that name
\* exists.  h is the history up to the return.
Return(j, result, removed, h) ==
    /\ wres' = [wres EXCEPT ![j] = result]
    /\ files' = IF removed THEN RemoveFile(wtemp[j]) ELSE files
    /\ hist' = [h EXCEPT !.removes[j] = @ + 1,
                         !.removeErr[j] = ~removed \/ ~FileExists(wtemp[j])]
    /\ wtemp' = [wtemp EXCEPT ![j] = NoFile]
    /\ ctxTimer' = [ctxTimer EXCEPT ![j] = Off]
    /\ wpc' = [wpc EXCEPT ![j] = "send"]

\* select, case <-ctx.Done(): the 30 s deadline passes with nothing received
\* from resultCh.
SelectTimeout(j) ==
    /\ wpc[j] = "select"
    /\ \E removed \in BOOLEAN :
          /\ faults >= 1 + (IF removed THEN 0 ELSE 1)
          /\ faults' = faults - 1 - (IF removed THEN 0 ELSE 1)
          /\ Return(j, OCRResponse(<<>>, "timeout"), removed,
                    [hist EXCEPT !.engineFaults = @ + 1])
    /\ UNCHANGED <<initVars, arrivals, reqVars, ocrWorkerPool, responseCh, idle, wreq,
                   engineVars, clock, procTimer>>

\* The response the handler writes for a Result it received (lines 831-851).
Rendered(result) == IF result.Err # "nil" THEN "ocr_failed" ELSE "success"

\* The channel a worker answers on.
SharedChan(req) == 1            \* (mutation of ReplyChan: one channel for all jobs)
ReplyChan(req) == req.ResponseCh

\* req.ResponseCh <- result.  A handler parked in its second select on that
\* channel is handed the value by the send itself (case result :=
\* <-responseCh) and writes its response; otherwise the value goes into the
\* buffer, for which the buffer must have room.
SendResult(j) ==
    /\ wpc[j] = "send"
    /\ LET ch == ReplyChan(wreq[j])
       IN  /\ IF st[ch] = "queued"
              THEN /\ st' = [st EXCEPT ![ch] = "completed"]
                   /\ resp' = [resp EXCEPT ![ch] = Append(@, Rendered(wres[j]))]
                   /\ procTimer' = [procTimer EXCEPT ![ch] = Off]
                   /\ UNCHANGED responseCh
              ELSE /\ Len(responseCh[ch].buf) < ReplyCap
                   /\ responseCh' = [responseCh EXCEPT ![ch] = ChanSend(@, wres[j])]
                   /\ UNCHANGED <<st, resp, procTimer>>
           /\ hist' = [hist EXCEPT !.sent[ch] = @ + 1,
                                   !.served[j] = @ + 1,
                                   !.result[j] = wres[j],
                                   !.held[j] = 0,
                                   !.reads[ch] = @ + (IF st[ch] = "queued" THEN 1 ELSE 0)]
    /\ wpc' = [wpc EXCEPT ![j] = "done"]
    /\ wreq' = [wreq EXCEPT ![j] = NoReq]
    /\ wres' = [wres EXCEPT ![j] = NoRes]
    /\ UNCHANGED <<initVars, arrivals, upl, ocrWorkerPool, wtemp, engineVars, files,
                   clock, ctxTimer, faults>>

\* (mutation of Send: the worker leaves its loop after it has sent an error)
SendErrorExit(j) ==
    SendResult(j) /\ idle' = idle + (IF wres[j].Err = "nil" THEN 1 ELSE 0)

\* (mutation of Send: the worker leaves its loop after the send)
SendAndExit(j) == SendResult(j) /\ idle' = idle

\* The body of the worker's loop ends with the send, and the worker is back
\* at "for req := range ocrWorkerPool".
Send(j) == SendResult(j) /\ idle' = idle + 1

\* ---- the engine goroutine of processOCRRequest --------------------------
\* ocrMutex.RLock(): one more reader.
RLock(m) == [m EXCEPT !.readers = @ + 1]

\* (mutation of RUnlock: the lock is kept when the call has returned)
NoRUnlock(m) == m

\* ocrMutex.RUnlock(): one reader less.
RUnlock(m) == [m EXCEPT !.readers = @ - 1]

\* ocrMutex.RLock(), then ocrClient.TextFromImageFile(tempFile) starts and
\* reads the file.
EngineRLock(j) ==
    /\ gpc[j] = "rlock"
    /\ ~ocrMutex.writer
    /\ ocrMutex' = RLock(ocrMutex)
    /\ gpc' = [gpc EXCEPT ![j] = "call"]
    /\ gimg' = [gimg EXCEPT ![j] =
                   IF FileExists(gfile[j]) THEN FileContent(gfile[j]) ELSE -1]
    /\ hist' = [hist EXCEPT !.calls[j] = @ + 1]
    /\ UNCHANGED <<initVars, arrivals, reqVars, ocrWorkerPool, responseCh, workerVars, gfile,
                   resultCh, files, clock, timerVars, faults>>

\* (mutation of EngineResponse: the trimmed text is passed on as it is)
EngineResponseRaw(text, failed) ==
    IF failed THEN OCRResponse(<<>>, "engine_failed")
    ELSE OCRResponse(TrimSpace(text), "nil")

\* The response the goroutine builds from what the engine returned.
EngineResponse(text, failed) ==
    IF failed THEN OCRResponse(<<>>, "engine_failed")
    ELSE LET t == TrimSpace(text)
         IN  OCRResponse(IF t = <<>> THEN NoTextDetected ELSE t, "nil")

\* (mutation of AfterCall: a call that failed is made again)
RetryOnError(failed) == IF failed THEN "rlock" ELSE "done"

\* Where the goroutine stands once TextFromImageFile has returned and the
\* response is sent: at its end, whether the call failed (lines 246-250) or
\* not.
AfterCall(failed) == "done"

\* (mutation of LateSend: the goroutine removes the file when it finds that
\* the worker has gone)
LateSendAndRemove(j, result, h) ==
    /\ resultCh' = [resultCh EXCEPT ![j] = ChanSend(@, result)]
    /\ files' = RemoveFile(hist.name[j])
    /\ hist' = [h EXCEPT !.removes[j] = @ + 1]
    /\ UNCHANGED <<wpc, wres, wtemp, ctxTimer>>

\* resultCh <- OCRResponse{...} after the worker has left its select: the
\* response goes into the buffer of resultCh and the goroutine ends.
LateSend(j, result, h) ==
    /\ resultCh' = [resultCh EXCEPT ![j] = ChanSend(@, result)]
    /\ hist' = h
    /\ UNCHANGED <<wpc, wres, wtemp, files, ctxTimer>>

\* TextFromImageFile returns (it fails on a missing file or, irregularly, on
\* its own); ocrMutex.RUnlock(); the response is sent on resultCh.  A worker
\* parked in its select is handed the value by the send (case result :=
\* <-resultCh) and returns from processOCRRequest; after a timeout the value
\* goes into the buffer of resultCh if the buffer has room, and the goroutine
\* stays blocked in its send if it has none.  (`removed` is the outcome of the
\* os.Remove that the worker defers; it is read only if the worker returns.)
EngineReturn(j) ==
    /\ gpc[j] = "call"
    /\ ocrMutex' = RUnlock(ocrMutex)
    /\ gimg' = [gimg EXCEPT ![j] = 0]
    /\ gfile' = [gfile EXCEPT ![j] = NoFile]
    /\ \E failed \in BOOLEAN, removed \in BOOLEAN :
          LET result == EngineResponse(IF failed THEN <<>> ELSE EngineText(gimg[j]),
                                       failed)
              cost == (IF failed /\ gimg[j] # -1 THEN 1 ELSE 0)
                      + (IF wpc[j] = "select" /\ ~removed THEN 1 ELSE 0)
              h == [hist EXCEPT !.engineFaults = @ + (IF failed THEN 1 ELSE 0),
                                !.early[j] = wpc[j] = "select" /\ hist.held[j] < CtxUnits]
          IN  /\ gimg[j] = -1 => failed
              /\ wpc[j] # "select" => removed
              /\ faults >= cost
              /\ faults' = faults - cost
              /\ IF wpc[j] # "select" /\ Len(resultCh[j].buf) >= ResultCap
                 THEN /\ gpc' = [gpc EXCEPT ![j] = "blocked"]
                      /\ hist' = h
                      /\ UNCHANGED <<resultCh, wpc, wres, wtemp, files, ctxTimer>>
                 ELSE /\ gpc' = [gpc EXCEPT ![j] = AfterCall(failed)]
                      /\ IF wpc[j] = "select"
                         THEN /\ Return(j, result, removed, h)
                              /\ UNCHANGED resultCh
                         ELSE LateSend(j, result, h)
    /\ UNCHANGED <<initVars, arrivals, reqVars, ocrWorkerPool, responseCh, idle, wreq,
                   clock, procTimer>>

\* ---- the system -----------------------------------------------------------
Next ==
    \/ InitOCR
    \/ findAvailablePort
    \/ ListenAndServe
    \/ \E r \in Reqs : UploadStart(r)
    \/ \E r \in Reqs : Admission(r)
    \/ \E r \in Reqs : ProcTimeout(r)
    \/ Dequeue
    \/ \E j \in Reqs : ProcessStart(j)
    \/ \E j \in Reqs : SelectTimeout(j)
    \/ \E j \in Reqs : Send(j)
    \/ \E j \in Reqs : EngineRLock(j)
    \/ \E j \in Reqs : EngineReturn(j)

Spec == Init /\ [][Next]_vars

\* A run under load in a healthy environment: NumReq requests, no irregular
\* event, and no timer of 30 s or 35 s that fires.
InitLoad ==
    /\ Boot
    /\ bound = {}
    /\ arrivals = NumReq
    /\ faults = 0

NextLoad ==
    \/ InitOCR
    \/ findAvailablePort
    \/ ListenAndServe
    \/ \E r \in Reqs : UploadStart(r)
    \/ \E r \in Reqs : Admission(r)
    \/ Dequeue
    \/ \E j \in Reqs : ProcessStart(j)
    \/ \E j \in Reqs : Send(j)
    \/ \E j \in Reqs : EngineRLock(j)
    \/ \E j \in Reqs : EngineReturn(j)

SpecLoad == InitLoad /\ [][NextLoad]_vars

\* A step of a worker or of an engine goroutine.  The select of a worker
\* completes with the engine's response or with the 30 s timer.
PoolStep ==
    \/ Dequeue
    \/ \E j \in Reqs : ProcessStart(j) \/ EngineRLock(j) \/ Send(j)
    \/ \E j \in Reqs : EngineReturn(j) \/ SelectTimeout(j)

\* A handler leaves its first select: by the send or by the 5 s timer.
AdmissionStep == \E r \in Reqs : Admission(r)

\* Scheduling: while some goroutine of the pool can step, the pool steps, and
\* while some handler can leave its first select, one does.
SpecFair == Spec /\ WF_vars(PoolStep) /\ WF_vars(AdmissionStep)

\* Under load, with nothing assumed but that first selects complete.
SpecLoadAdmit == SpecLoad /\ WF_vars(AdmissionStep)

\* ---- the system with time ------------------------------------------------
\* Time advances in units of 5 s.  A timer that has run down fires before
\* time advances further, unless the select that waits on it completes with
\* its other case at that moment (the select chooses among its ready cases).

\* Second select, case <-time.After(35 * time.Second), when the timer is due.
ProcDeadline(r) ==
    /\ st[r] = "queued"
    /\ procTimer[r] = 0
    /\ st' = [st EXCEPT ![r] = "timed_out"]
    /\ resp' = [resp EXCEPT ![r] = Append(@, "processing_timeout")]
    /\ procTimer' = [procTimer EXCEPT ![r] = Off]
    /\ UNCHANGED <<initVars, arrivals, upl, ocrWorkerPool, responseCh, workerVars,
                   engineVars, files, clock, ctxTimer, faults, hist>>

\* (mutation of CtxDeadline: at the deadline the worker goes on waiting for
\* the engine call)
CtxDeadlineWaits(j) ==
    /\ wpc[j] = "select"
    /\ ctxTimer[j] = 0
    /\ ctxTimer' = [ctxTimer EXCEPT ![j] = Off]
    /\ UNCHANGED <<initVars, arrivals, reqVars, ocrWorkerPool, responseCh, workerVars,
                   engineVars, files, clock, procTimer, faults, hist>>

\* select, case <-ctx.Done(), when the deadline of ctx is due.
CtxDeadline(j) ==
    /\ wpc[j] = "select"
    /\ ctxTimer[j] = 0
    /\ Return(j, OCRResponse(<<>>, "timeout"), TRUE,
              [hist EXCEPT !.engineFaults = @ + 1])
    /\ UNCHANGED <<initVars, arrivals, reqVars, ocrWorkerPool, responseCh, idle, wreq,
                   engineVars, clock, procTimer, faults>>

\* Steps that take no time on the scale of the timers: a handler with room
\* in the queue and a worker that holds a job proceed before 5 s pass.  An
\* engine call, the arrival of a request and the wait of a job in the queue
\* (which stands for any load on the workers) take any time.
Urgent ==
    \/ \E r \in Reqs : st[r] = "validated"
    \/ \E r \in Reqs : st[r] = "queued" /\ procTimer[r] = 0
    \/ \E j \in Reqs : wpc[j] \in {"process", "send"}
    \/ \E j \in Reqs : wpc[j] = "select" /\ ctxTimer[j] = 0
    \/ \E j \in Reqs : gpc[j] = "rlock"

\* 5 s pass: every running timer comes 5 s nearer to firing.
Tick ==
    /\ ~Urgent
    /\ \E r \in Reqs : procTimer[r] > 0 \/ ctxTimer[r] > 0
    /\ procTimer' = [r \in Reqs |-> IF procTimer[r] > 0 THEN procTimer[r] - 1
                                     ELSE procTimer[r]]
    /\ ctxTimer' = [j \in Reqs |-> IF ctxTimer[j] > 0 THEN ctxTimer[j] - 1
                                    ELSE ctxTimer[j]]
    /\ hist' = [hist EXCEPT
                    !.waited = [r \in Reqs |-> IF st[r] = "queued" THEN @[r] + 1 ELSE @[r]],
                    !.held = [j \in Reqs |-> IF wpc[j] \in {"process", "select", "send"}
                                              THEN @[j] + 1 ELSE @[j]]]
    /\ UNCHANGED <<initVars, arrivals, reqVars, ocrWorkerPool, responseCh, workerVars,
                   engineVars, files, clock, faults>>

\* A healthy environment in which engine calls take any time: no irregular
\* event, timers fire when they are due.
InitTimed ==
    /\ Boot
    /\ bound = {}
    /\ arrivals = TimedReq
    /\ faults = 0

NextTimed ==
    \/ InitOCR
    \/ findAvailablePort
    \/ ListenAndServe
    \/ \E r \in Reqs : UploadStart(r)
    \/ \E r \in Reqs : Admission(r)
    \/ \E r \in Reqs : ProcDeadline(r)
    \/ Dequeue
    \/ \E j \in Reqs : ProcessStart(j)
    \/ \E j \in Reqs : CtxDeadline(j)
    \/ \E j \in Reqs : Send(j)
    \/ \E j \in Reqs : EngineRLock(j)
    \/ \E j \in Reqs : EngineReturn(j)
    \/ Tick

SpecTimed == InitTimed /\ [][NextTimed]_vars

\* The same with irregular events: engine calls that fail, writes of the
\* temporary file that fail, clock reads that repeat, requests refused before
\* the queue.
InitTimedFaulty ==
    /\ Boot
    /\ bound = {}
    /\ arrivals = TimedReq
    /\ faults = TimedFaults

SpecTimedFaulty == InitTimedFaulty /\ [][NextTimed]_vars

\* The write deadline of the connection of request r has passed: the server
\* sets it WriteTimeout after it has read the header of the request, and a
\* response written later does not go out.  The handler is taken to need no
\* time from the header to the admission of its job, so the time since the
\* header was read is the time the handler has waited since admission.
WriteDeadlinePassed(r) == hist.waited[r] >= WriteUnits

\* A step that takes no time.
UrgentStep ==
    \/ \E r \in Reqs : Admission(r) \/ ProcDeadline(r)
    \/ \E j \in Reqs : ProcessStart(j) \/ CtxDeadline(j) \/ Send(j) \/ EngineRLock(j)

\* Scheduling with time: time goes on, and a step that takes no time is
\* taken.  Nothing is assumed of the engine: a call may never return.
SpecTimedFair == SpecTimed /\ WF_vars(Tick) /\ WF_vars(UrgentStep)

\* ---- the type check on many file names -----------------------------------
\* One request, under any of the names TestNames, up to its first select.
InitExt ==
    /\ Boot
    /\ bound = {}
    /\ arrivals = 1
    /\ faults = 1

NextExt ==
    \/ InitOCR
    \/ findAvailablePort
    \/ ListenAndServe
    \/ \E r \in Reqs : UploadNamed(r)

SpecExt == InitExt /\ [][NextExt]_vars

\* ---- the start of the server among other processes ------------------------
\* main() alone, with other processes that bind and release the ports of the
\* list at any moment.
InitPorts ==
    /\ Boot
    /\ bound \in SUBSET Ports
    /\ arrivals = 0
    /\ faults = 0

NextPorts ==
    \/ InitOCR
    \/ findAvailablePort
    \/ ListenAndServe
    \/ \E p \in Ports : OtherBinds(p)
    \/ \E p \in Ports : OtherReleases(p)

SpecPorts == InitPorts /\ [][NextPorts]_vars

\* ---- properties ----------------------------------------------------------
Range(f) == {f[i] : i \in DOMAIN f}
Queued == {ocrWorkerPool[i].ResponseCh : i \in DOMAIN ocrWorkerPool}
LightReqs == 1..MaxReq                  \* the requests of a run of Spec
EngineCalls == {j \in Reqs : gpc[j] = "call"}

\* C1: at every instant at most one call of ocrClient.TextFromImageFile is
\* executing, over all workers and all engine goroutines left behind by
\* timed-out jobs.
C1_OneEngineCallAtATime == Count(EngineCalls) <= 1

\* C2, as claimed: with at most QueueCap requests and no engine call that
\* fails or overruns its deadline, a handler that was admitted and has
\* answered has answered with the Result of its job.
C2_AdmittedGetsResult ==
    \A r \in Reqs :
        (hist.engineFaults = 0 /\ r \in Range(hist.enq) /\ st[r] \in Terminal)
            => (st[r] = "completed" /\ hist.reads[r] = 1)

\* C2, amended: every admitted handler eventually answers, with its job's
\* Result or, if its 35 s timer fires first, with "processing timeout"; it
\* answers once, and no handler receives a Result twice.
C2_AdmittedAnswersOnce ==
    \A r \in LightReqs :
        /\ (st[r] = "queued") ~> (st[r] \in {"completed", "timed_out"})
        /\ [](/\ hist.reads[r] <= 1
              /\ st[r] = "completed" => hist.reads[r] = 1 /\ Len(resp[r]) = 1
              /\ st[r] = "timed_out" => hist.reads[r] = 0 /\ Len(resp[r]) = 1)

C2_Witness ==
    \E r, q \in Reqs : st[r] = "timed_out" /\ st[q] = "completed" /\ hist.reads[q] = 1

\* C3: a handler that reached job submission and returned has written
\* exactly one response, of the class its exit belongs to; a handler that has
\* not returned has written none; no handler receives from its reply channel
\* more than once.
C3_ExactlyOneOutcome ==
    \A r \in Reqs :
        /\ hist.reads[r] <= 1
        /\ st[r] \in {"validated", "queued"} => resp[r] = <<>>
        /\ st[r] = "admission_rejected" => resp[r] = <<"busy">>
        /\ st[r] = "timed_out" => resp[r] = <<"processing_timeout">>
        /\ st[r] = "completed" =>
              /\ resp[r] \in {<<"success">>, <<"ocr_failed">>}
              /\ hist.reads[r] = 1

C3_Witness ==
    \E r, q \in Reqs :
        /\ st[r] = "timed_out" /\ responseCh[r].buf # <<>>
        /\ st[q] = "completed" /\ resp[q] = <<"success">>

\* C4: the worker of a job sends one Result, on the reply channel of that job:
\* none before it has finished the job, one after, and every Result on a
\* channel was sent by the worker of the job the channel belongs to.
C4_OneResultOnOwnChannel ==
    \A j \in Reqs :
        /\ hist.sent[j] = hist.served[j]
        /\ wpc[j] \in {"none", "process", "select", "send"} => hist.served[j] = 0
        /\ wpc[j] = "done" => hist.served[j] = 1

C4_Witness ==
    \E j, k \in Reqs : j # k /\ wpc[j] = "done" /\ wpc[k] = "done" /\ st[k] = "timed_out"

\* C5: whenever a worker stands at its send, the buffer of the reply channel
\* is empty and the send can complete at once: the handler is waiting on the
\* channel, or the buffer has room.
C5_SendNeverBlocks ==
    \A j \in Reqs :
        wpc[j] = "send" =>
            /\ responseCh[wreq[j].ResponseCh].buf = <<>>
            /\ \/ st[wreq[j].ResponseCh] = "queued"
               \/ Len(responseCh[wreq[j].ResponseCh].buf) < ReplyCap

C5_Witness == \E j \in Reqs : wpc[j] = "send" /\ st[j] = "timed_out"

\* C6: every job is dequeued at most once, and only after it was admitted.
C6_DequeuedOnce ==
    /\ \A i, k \in DOMAIN hist.deq : hist.deq[i] = hist.deq[k] => i = k
    /\ Range(hist.deq) \subseteq Range(hist.enq)
    /\ \A j \in Queued : j \notin Range(hist.deq)

C6_Witness == Len(hist.deq) = MaxReq /\ idle < NumWorkers

\* C7: every job whose send into the queue succeeded is eventually dequeued,
\* also after engine errors and engine timeouts.
C7_NoLostEnqueue ==
    \A r \in LightReqs : (r \in Range(hist.enq)) ~> (r \in Range(hist.deq))

C7_Witness == hist.engineFaults > 0 /\ Len(hist.deq) = MaxReq

\* C8: the jobs leave the queue in the order in which they entered it.
C8_FifoDequeue ==
    /\ Len(hist.deq) <= Len(hist.enq)
    /\ hist.deq = SubSeq(hist.enq, 1, Len(hist.deq))

C8_Witness == Len(hist.deq) >= 3 /\ Len(ocrWorkerPool) >= 1

\* C9: a handler does not stay in its first select for ever; when it leaves
\* the select while the buffer is full, it leaves with "service busy".
C9_AdmissionTimeout ==
    /\ \A r \in Reqs :
          (st[r] = "validated") ~> (st[r] \in {"queued", "admission_rejected"})
    /\ [][\A r \in Reqs :
             (st[r] = "validated" /\ Len(ocrWorkerPool) = QueueCap /\ st'[r] # st[r])
                 => (st'[r] = "admission_rejected" /\ resp'[r] = <<"busy">>)]_vars

C9_Witness ==
    \E r \in Reqs : st[r] = "admission_rejected" /\ Len(ocrWorkerPool) = QueueCap

\* C10: a request answered "service busy" never entered the queue: its job is
\* not in the queue, was never dequeued, and no worker, temporary file or
\* engine call exists or existed for it.
C10_BusyNeverQueued ==
    \A r \in Reqs :
        resp[r] = <<"busy">> =>
            /\ r \notin Range(hist.enq)
            /\ r \notin Queued
            /\ r \notin Range(hist.deq)
            /\ wpc[r] = "none" /\ gpc[r] = "none"
            /\ hist.temps[r] = 0 /\ hist.calls[r] = 0

C10_Witness ==
    \E r \in Reqs : resp[r] = <<"busy">> /\ Len(hist.deq) = QueueCap

\* C11: a handler that was admitted answers within 35 s of its admission.  Its
\* timer runs from the admission, whether the job waits in the queue or is
\* with a worker; the handler answers with the Result if the Result comes
\* first and with "processing timeout" when the 35 s are over.
C11_AnswersWithinProcTimeout ==
    \A r \in Reqs :
        /\ hist.waited[r] <= ProcUnits
        /\ st[r] = "queued" => procTimer[r] = ProcUnits - hist.waited[r]
        /\ st[r] = "timed_out" =>
              /\ hist.waited[r] = ProcUnits
              /\ hist.reads[r] = 0
              /\ resp[r] = <<"processing_timeout">>
        /\ st[r] = "completed" =>
              /\ hist.reads[r] = 1
              /\ resp[r] \in {<<"success">>, <<"ocr_failed">>}

C11_Witness ==
    \E r, q \in Reqs :
        /\ st[r] = "timed_out" /\ r \in Queued
        /\ st[q] = "completed" /\ hist.waited[q] > 0

\* C12: when a handler has answered "processing timeout", its job goes on: it
\* is in the queue or with a worker until the worker has finished it, the
\* worker sends the Result into the reply channel, and the Result stays there
\* unread.
C12_TimedOutJobRunsOn ==
    \A r \in LightReqs :
        /\ [](st[r] = "timed_out" =>
                 /\ r \in Queued \/ wpc[r] # "none"
                 /\ hist.reads[r] = 0
                 /\ wpc[r] = "done" =>
                        Len(responseCh[r].buf) = 1 /\ hist.served[r] = 1
                 /\ wpc[r] # "done" => responseCh[r].buf = <<>>)
        /\ (st[r] = "timed_out") ~> (wpc[r] = "done" /\ Len(responseCh[r].buf) = 1)

C12_Witness ==
    \E r \in Reqs :
        /\ st[r] = "timed_out" /\ wpc[r] = "done"
        /\ responseCh[r].buf # <<>> /\ Head(responseCh[r].buf).Err = "nil"

\* A job whose worker left its select by the 30 s deadline: the worker has
\* returned while the engine goroutine has not yet delivered, or delivered
\* into the buffer of resultCh afterwards.
CtxExpired(j) ==
    /\ wpc[j] \in {"send", "done"}
    /\ gpc[j] \in {"rlock", "call"} \/ resultCh[j].buf # <<>>

SameName(j) == {k \in Reqs \ {j} : hist.name[k] = hist.name[j]}

\* C13: when the 30 s deadline passes before the engine call has returned,
\* the worker's Result is the timeout error, and os.Remove has been called on
\* the job's temporary file once, and stays called once when the engine call
\* returns afterwards; unless that call failed the file is gone.  No job has
\* os.Remove called for it twice.
C13_TimeoutRemovesOnce ==
    \A j \in Reqs :
        /\ hist.removes[j] <= 1
        /\ CtxExpired(j) =>
              /\ hist.removes[j] = 1
              /\ wpc[j] = "send" => wres[j] = OCRResponse(<<>>, "timeout")
              /\ (~hist.removeErr[j] /\ SameName(j) = {}) => ~FileExists(hist.name[j])

C13_Witness ==
    \E j \in Reqs :
        /\ CtxExpired(j) /\ wpc[j] = "done"
        /\ gpc[j] = "done" /\ resultCh[j].buf # <<>>
        /\ hist.removes[j] = 1

\* C14, as claimed: when the worker of a job whose temporary file was written
\* stands at its send or has sent, the file does not exist.
C14_FileGoneAtSend ==
    \A j \in Reqs :
        (wpc[j] \in {"send", "done"} /\ hist.io[j] = "ok") => ~FileExists(hist.name[j])

\* C14, amended: when the worker of a job whose temporary file was written
\* stands at its send or has sent, whatever the Result (text, engine error,
\* timeout), os.Remove has been called on the file; the file does not exist
\* unless that call failed or another job uses the same file name.
C14_RemoveBeforeSend ==
    \A j \in Reqs :
        (wpc[j] \in {"send", "done"} /\ hist.io[j] = "ok") =>
            /\ hist.removes[j] = 1
            /\ FileExists(hist.name[j]) => (hist.removeErr[j] \/ SameName(j) # {})

C14_Witness ==
    \E j, k \in Reqs :
        /\ wpc[j] = "send" /\ hist.io[j] = "ok" /\ wres[j].Err = "engine_failed"
        /\ ~FileExists(hist.name[j])
        /\ st[k] = "completed" /\ resp[k] = <<"success">> /\ ~FileExists(hist.name[k])

\* The Results of job j that exist: with its worker, in the buffer of its
\* resultCh, in the buffer of its reply channel.
ResultsOf(j) ==
    {wres[j]} \cup Range(resultCh[j].buf) \cup Range(responseCh[j].buf)

\* C15: a Result without error carries a text that is not empty and has no
\* white space at either end; it is "No text detected in the image." when the
\* engine returned white space only (image 2), and the engine's text without
\* its surrounding white space otherwise.
C15_NoEmptyText ==
    \A j \in Reqs : \A res \in ResultsOf(j) :
        res.Err = "nil" =>
            /\ res.Text # <<>>
            /\ Head(res.Text) \notin WhiteSpace
            /\ res.Text[Len(res.Text)] \notin WhiteSpace
            /\ SameName(j) = {} =>
                  res.Text = IF ImageOf(j) = 2 THEN NoTextDetected
                             ELSE <<"t", ToString(ImageOf(j))>>

C15_Witness ==
    \E j, k \in Reqs :
        /\ wres[j].Err = "nil" /\ wres[j].Text = NoTextDetected
        /\ responseCh[k].buf # <<>> /\ Head(responseCh[k].buf).Text = <<"t", "1">>

EngineReady == tesseractFound /\ ocrClient # Nil

\* C16: when initOCR left the engine handle not ready, every POST request to
\* the handler ends with "not configured", and no request creates a job: no
\* reply channel is made, no OCRRequest is built, nothing enters the queue
\* and no worker leaves its wait.
C16_EngineUnavailable ==
    (mainPc = "serving" /\ ~EngineReady) =>
        /\ ocrWorkerPool = <<>> /\ hist.enq = <<>> /\ idle = NumWorkers
        /\ \A r \in Reqs :
              /\ st[r] \in {"none", "redirected", "engine_unavailable"}
              /\ hist.method[r] = "POST" =>
                    st[r] = "engine_unavailable" /\ resp[r] = <<"not_configured">>
              /\ responseCh[r] = NoChan /\ upl[r] = NoReq
              /\ wpc[r] = "none" /\ gpc[r] = "none"

C16_Witness ==
    /\ ~EngineReady
    /\ \E r, q \in Reqs :
          r # q /\ resp[r] = <<"not_configured">> /\ resp[q] = <<"not_configured">>

\* C17: no job is built for a file name with an unsupported extension; the
\* request that is answered "invalid type" has no reply channel, is never in
\* the queue or with a worker, and the step in which it is rejected leaves
\* the queue, the workers, the engine goroutines, the reply channels and
\* the files as they were.
C17_BadTypeTouchesNothing ==
    /\ [](\A r \in Reqs :
             /\ upl[r] # NoReq => isValidImageType(upl[r].Filename)
             /\ resp[r] = <<"invalid_type">> =>
                   /\ st[r] = "rejected"
                   /\ responseCh[r] = NoChan /\ upl[r] = NoReq
                   /\ r \notin Range(hist.enq) /\ r \notin Queued
                   /\ wpc[r] = "none" /\ gpc[r] = "none")
    /\ [][\A r \in Reqs :
             (resp[r] = <<>> /\ resp'[r] = <<"invalid_type">>) =>
                 /\ ocrWorkerPool' = ocrWorkerPool
                 /\ workerVars' = workerVars
                 /\ engineVars' = engineVars
                 /\ responseCh' = responseCh
                 /\ files' = files]_vars

C17_Witness ==
    \E r \in Reqs :
        /\ resp[r] = <<"invalid_type">>
        /\ ocrWorkerPool # <<>> /\ idle < NumWorkers

Busy == {j \in Reqs : wpc[j] \in {"process", "select", "send"}}

\* C18: the workers that wait for a job and the workers that hold one are
\* NumWorkers together at all times, whatever the Results sent so far: a
\* worker that has sent a Result, an error included, waits for the next job.
C18_WorkersStay ==
    /\ [](idle + Count(Busy) = NumWorkers)
    /\ [][\A j \in Reqs :
             (wpc[j] = "send" /\ wpc'[j] = "done") => idle' = idle + 1]_vars

C18_Witness ==
    \E j, k \in Reqs :
        /\ CtxExpired(j) /\ wpc[j] = "done"
        /\ wpc[k] = "done" /\ resp[k] = <<"success">>
        /\ \E a, b \in DOMAIN hist.deq : a < b /\ hist.deq[a] = j /\ hist.deq[b] = k
        /\ idle = NumWorkers

\* C19: the engine is called at most once for a job: not before the goroutine
\* of the job has the lock, once from then on, also when the call failed; the
\* failure is the Result of the job and reaches the handler as such.
C19_NoRetry ==
    \A j \in Reqs :
        /\ hist.calls[j] <= 1
        /\ gpc[j] \in {"none", "rlock"} => hist.calls[j] = 0
        /\ gpc[j] \in {"call", "done", "blocked"} => hist.calls[j] = 1
        /\ \A res \in ResultsOf(j) :
              res.Err = "engine_failed" => (gpc[j] = "done" /\ res.Text = <<>>)

C19_Witness ==
    \E j \in Reqs :
        /\ resp[j] = <<"ocr_failed">> /\ st[j] = "completed"
        /\ hist.io[j] = "ok" /\ ~CtxExpired(j)
        /\ hist.calls[j] = 1 /\ gpc[j] = "done"

\* C20: for a job whose temporary file could not be created or written, the
\* engine goroutine is never started and the engine never called; the worker
\* holds the temp-file error as the Result, sends it, and the handler that
\* receives it answers "OCR failed".
C20_WriteFailureAborts ==
    \A j \in Reqs :
        hist.io[j] \in {"create_err", "write_err"} =>
            /\ hist.calls[j] = 0
            /\ gpc[j] = "none" /\ resultCh[j] = NoChan
            /\ wpc[j] \in {"send", "done"}
            /\ wpc[j] = "send" => wres[j] = OCRResponse(<<>>, "tempfile")
            /\ st[j] = "completed" => resp[j] = <<"ocr_failed">>

C20_Witness ==
    \E j \in Reqs :
        /\ hist.io[j] = "write_err" /\ wpc[j] = "done"
        /\ resp[j] = <<"ocr_failed">> /\ hist.calls[j] = 0

\* C21: two jobs that are in processOCRRequest at the same time, between the
\* write of the temporary file and its removal, hold different file names.
C21_DistinctTempNames ==
    \A j, k \in Reqs :
        (j # k /\ wpc[j] = "select" /\ wpc[k] = "select") => wtemp[j] # wtemp[k]

\* C22: ocrMutex is held by the engine goroutines that are in their engine
\* call and by nothing else.  The step that writes a temporary file, the send
\* of a Result and the dequeue do not touch the lock; the deferred removal
\* either does not touch it (after the 30 s deadline) or follows the RUnlock
\* of the goroutine whose response the worker received.
C22_LockAroundCallOnly ==
    /\ [](~ocrMutex.writer /\ ocrMutex.readers = Count(EngineCalls))
    /\ [][/\ hist.temps' # hist.temps => ocrMutex' = ocrMutex
          /\ idle' # idle => ocrMutex' = ocrMutex
          /\ \A j \in Reqs :
                hist.removes'[j] # hist.removes[j] =>
                    \/ ocrMutex' = ocrMutex
                    \/ /\ gpc[j] = "call" /\ gpc'[j] = "done"
                       /\ ocrMutex'.readers = ocrMutex.readers - 1]_vars

C22_Witness ==
    \E j, k \in Reqs :
        /\ gpc[j] = "call" /\ ocrMutex.readers = 1
        /\ wpc[k] = "send" /\ hist.removes[k] = 1 /\ gpc[k] = "done"
        /\ idle > 0

\* C23, as claimed: a request is received ("none"), validated, queued, or in
\* one of the four terminal states completed, timed_out, admission_rejected,
\* engine_unavailable.
C23_FourTerminalStates ==
    \A r \in Reqs :
        st[r] \in {"none", "validated", "queued", "completed", "timed_out",
                   "admission_rejected", "engine_unavailable"}

\* The steps of a handler: from received to an early exit or to validated,
\* from validated into the queue or to "service busy", from queued to the
\* Result or to "processing timeout".
Edges ==
    ({"none"} \X {"redirected", "engine_unavailable", "rejected", "validated"})
    \cup ({"validated"} \X {"queued", "admission_rejected"})
    \cup ({"queued"} \X {"completed", "timed_out"})

\* C23, amended: a request moves along received -> validated -> queued ->
\* completed | timed_out, or leaves to admission_rejected (from validated) or
\* to engine_unavailable, rejected (bad form or file type) or redirected
\* (method not POST) from received.  These six states are terminal: a request
\* in one of them stays there and has exactly one response, a request in
\* another state has none.  A request is queued only after validation, and
\* completed only when a worker has processed it.  Every request that was
\* validated ends in a terminal state.
C23_StateMachine ==
    /\ [][\A r \in Reqs : st'[r] # st[r] => <<st[r], st'[r]>> \in Edges]_vars
    /\ [](\A r \in Reqs :
             /\ st[r] \in Terminal <=> Len(resp[r]) = 1
             /\ st[r] \notin Terminal => resp[r] = <<>>
             /\ st[r] \in {"queued", "completed", "timed_out"} =>
                   /\ upl[r] # NoReq /\ isValidImageType(upl[r].Filename)
                   /\ r \in Range(hist.enq)
             /\ st[r] = "completed" => wpc[r] = "done")
    /\ \A r \in LightReqs :
          (st[r] \in {"validated", "queued"}) ~> (st[r] \in Terminal)

C23_Witness ==
    \E r, q \in Reqs :
        /\ st[r] = "rejected" /\ resp[r] = <<"invalid_type">>
        /\ st[q] = "completed" /\ wpc[q] = "done"

\* Job j entered the queue before job k.
Before(j, k) ==
    \E a, b \in DOMAIN hist.enq : a < b /\ hist.enq[a] = j /\ hist.enq[b] = k

\* C24: the order of the sends is not the order of the queue.  What the queue
\* fixes is the order of the dequeues: whenever a job has left the queue,
\* every job that entered before it has left it too, so a job whose Result
\* is sent before that of an earlier job has overtaken it while both were
\* with workers.  The witness is such an overtaking.
C24_OvertakeOnlyAtWorkers ==
    \A j, k \in Reqs :
        (Before(j, k) /\ wpc[k] # "none") =>
            /\ wpc[j] # "none" /\ j \notin Queued
            /\ \E a, b \in DOMAIN hist.deq :
                  a < b /\ hist.deq[a] = j /\ hist.deq[b] = k

C24_Witness ==
    \E j, k \in Reqs :
        /\ Before(j, k)
        /\ wpc[k] = "done" /\ hist.served[k] = 1
        /\ wpc[j] \in {"process", "select", "send"} /\ hist.served[j] = 0
        /\ hist.deq = SubSeq(hist.enq, 1, Len(hist.deq))

\* C25: the handler of a job that was dequeued in the 5 s of its admission
\* never answers "processing timeout": when the engine call overruns the
\* 30 s deadline, the worker's timeout Result reaches the handler 30 s after
\* the admission, before the 35 s timer, and the handler answers "OCR failed".
C25_WorkerTimeoutWins ==
    \A j \in Reqs :
        (wpc[j] # "none" /\ ~hist.late[j]) =>
            /\ st[j] # "timed_out"
            /\ (CtxExpired(j) /\ wpc[j] = "done") =>
                  /\ st[j] = "completed" /\ resp[j] = <<"ocr_failed">>
                  /\ hist.waited[j] = CtxUnits

C25_Witness ==
    \E j, k \in Reqs :
        /\ ~hist.late[j] /\ CtxExpired(j) /\ wpc[j] = "done"
        /\ resp[j] = <<"ocr_failed">> /\ hist.waited[j] = CtxUnits
        /\ hist.late[k] /\ st[k] = "timed_out"

\* C26: two jobs with the same image bytes and the same file name whose
\* Results carry no error carry the same text.
C26_SameBytesSameText ==
    \A j, k \in Reqs :
        ( /\ upl[j] # NoReq /\ upl[k] # NoReq
          /\ upl[j].ImageBytes = upl[k].ImageBytes
          /\ upl[j].Filename = upl[k].Filename
          /\ hist.result[j].Err = "nil" /\ hist.result[k].Err = "nil" )
        => hist.result[j].Text = hist.result[k].Text

\* C27: at every instant there are 3 workers, each waiting for a job or
\* holding one; the queue holds at most 10 jobs; at most 3 jobs have been
\* dequeued and have not had their Result sent.
C27_PoolSizes ==
    /\ idle \in 0..3
    /\ idle + Count(Busy) = 3
    /\ Len(ocrWorkerPool) <= 10
    /\ Count({j \in Range(hist.deq) : hist.served[j] = 0}) <= 3

C27_Witness ==
    /\ idle = 0 /\ Count(Busy) = 3
    /\ Len(ocrWorkerPool) = NumReq - 3
    /\ \E j \in Reqs : wpc[j] = "send"

\* C28: initOCR runs once, before any request is handled.  Until it has run
\* no request has been received, the queue is empty, every worker waits and
\* no engine goroutine exists; once it has run, ocrClient and tesseractFound
\* keep their values, and every read of the handle by a handler, a worker or
\* an engine goroutine comes after it.
C28_InitOnceBeforeServing ==
    /\ [](mainPc = "boot" =>
             /\ ocrClient = Nil /\ ~tesseractFound
             /\ ocrWorkerPool = <<>> /\ idle = NumWorkers
             /\ \A r \in Reqs :
                   st[r] = "none" /\ wpc[r] = "none" /\ gpc[r] = "none"
                   /\ hist.calls[r] = 0)
    /\ [][/\ mainPc' # mainPc =>
                <<mainPc, mainPc'>> \in {<<"boot", "ports">>, <<"ports", "listen">>,
                                         <<"listen", "serving">>}
          /\ mainPc # "boot" =>
                (ocrClient' = ocrClient /\ tesseractFound' = tesseractFound)]_vars

C28_Witness ==
    /\ mainPc = "serving" /\ ocrClient = "client" /\ tesseractFound
    /\ \E j, k \in Reqs : gpc[j] = "call" /\ wpc[k] = "done" /\ st[k] = "completed"

\* The Result of job j when nothing interferes with its file: the text of
\* its image, or the sentinel for the image without text.
OwnText(j) == IF ImageOf(j) = 2 THEN NoTextDetected ELSE <<"t", ToString(ImageOf(j))>>

\* C29: when os.Remove of a job's temporary file has failed, the worker stands
\* at its send or has sent, and the Result is the one the select chose: the
\* text of the image, the engine's error or the timeout error, never an error
\* of the removal.  The step of the failed removal takes the worker to its
\* send.
C29_RemoveFailureSwallowed ==
    /\ [](\A j \in Reqs :
             hist.removeErr[j] =>
                 LET res == IF wpc[j] = "send" THEN wres[j] ELSE hist.result[j]
                 IN  /\ wpc[j] \in {"send", "done"}
                     /\ wpc[j] = "done" => hist.served[j] = 1
                     /\ res.Err \in {"nil", "engine_failed", "timeout"}
                     /\ res.Err = "timeout" <=> CtxExpired(j)
                     /\ (res.Err = "nil" /\ SameName(j) = {}) => res.Text = OwnText(j))
    /\ [][\A j \in Reqs :
             (~hist.removeErr[j] /\ hist.removeErr'[j]) =>
                 (wpc[j] = "select" /\ wpc'[j] = "send" /\ idle' = idle)]_vars

C29_Witness ==
    \E j, k \in Reqs :
        /\ hist.removeErr[j] /\ FileExists(hist.name[j])
        /\ st[j] = "completed" /\ resp[j] = <<"success">>
        /\ Before(j, k) /\ wpc[k] = "done" /\ idle = NumWorkers

\* The extensions the claim lists.
SixExts ==
    { <<".", "p", "n", "g">>, <<".", "j", "p", "g">>, <<".", "j", "p", "e", "g">>,
      <<".", "g", "i", "f">>, <<".", "b", "m", "p">>, <<".", "t", "i", "f", "f">> }

\* name ends with ext, letter case apart.  An ext of SixExts has its one dot
\* in front, so such an ending is the last extension of the name.
EndsWithFold(name, ext) ==
    /\ Len(name) >= Len(ext)
    /\ \A i \in 1..Len(ext) :
          name[Len(name) - Len(ext) + i] \in {ext[i], Upper(ext[i])}

\* C30: a POST request with a well-formed form passes the type check exactly
\* when its file name ends, letter case apart, with one of the six
\* extensions; every other name, a name without extension included, is
\* answered "invalid type".
C30_ValidImageTypes ==
    \A r \in Reqs :
        st[r] \in {"validated", "rejected"} =>
            LET name == hist.upname[r]
                ok   == \E e \in SixExts : EndsWithFold(name, e)
            IN  /\ st[r] = "validated" <=> ok
                /\ st[r] = "rejected" <=> ~ok
                /\ st[r] = "rejected" => resp[r] = <<"invalid_type">>
                /\ isValidImageType(name) <=> ok

C30_Witness ==
    \E r \in Reqs :
        /\ st[r] = "validated"
        /\ hist.upname[r] = <<"a", ".", "t", "x", "t", ".", "J", "P", "E", "G">>

\* C31: findAvailablePort returns the first port of 9000, 8000, 7000 that
\* could be bound and an error exactly when none could, and the server then
\* listens on the port returned: main does not end once a port was returned.
C31_ListensOnFirstFree ==
    /\ port # 0 =>
          /\ hist.probes = [i \in 1..Len(hist.probes) |-> i = Len(hist.probes)]
          /\ port = preferredPorts[Len(hist.probes)]
    /\ (mainPc = "fatal" /\ port = 0) <=> hist.probes = <<FALSE, FALSE, FALSE>>
    /\ mainPc = "fatal" => port = 0

TimedReqs == 1..TimedReq                \* the requests of a run of SpecTimed

\* C32: a worker that has dequeued a job is back at the queue after at most
\* the 30 s of the engine-call deadline (the file I/O, which takes no time on
\* that scale, apart), whether the engine call returns or not: it never holds
\* a job for more than 30 s, and it always lets go of it.
C32_WorkerComesBack ==
    /\ [](\A j \in Reqs : hist.held[j] <= CtxUnits)
    /\ \A j \in TimedReqs : (j \in Busy) ~> (wpc[j] = "done")

C32_Witness ==
    \E j \in Reqs :
        /\ wpc[j] = "done" /\ gpc[j] = "call"
        /\ hist.result[j].Err = "timeout"
        /\ hist.waited[j] >= CtxUnits

\* The engine goroutines that execute the engine call or wait for the lock.
EngineBound == {j \in Reqs : gpc[j] \in {"rlock", "call"}}

\* C33: at every instant at most NumWorkers engine calls are executing or
\* waiting for the engine lock, also after jobs have hit the engine-call
\* deadline and their workers have gone on to later jobs.
C33_EngineCallsBounded == Count(EngineBound) <= NumWorkers

\* C34: no step deletes the temporary file that an engine call which goes on
\* executing reads, neither the os.Remove of its own job (after the engine
\* timeout) nor the os.Remove of another job.
C34_NoRemoveUnderCall ==
    [][\A j \in Reqs :
          (gpc[j] = "call" /\ gpc'[j] = "call" /\ FileExists(gfile[j]))
              => \E f \in files' : f[1] = gfile[j]]_vars

\* The worker of job j left its select by the ctx.Done() case.
TookTimeout(j) == wres[j].Err = "timeout" \/ hist.result[j].Err = "timeout"

\* C35: the engine goroutine of a job ends when its engine call has
\* returned: its send on resultCh completes at once, by hand-over to the
\* worker in its select or into the buffer, where the response stays unread
\* when the worker has left by the timeout; no goroutine stays in its send.
C35_EngineGoroutineEnds ==
    \A j \in Reqs :
        /\ gpc[j] # "blocked"
        /\ Len(resultCh[j].buf) <= ResultCap
        /\ resultCh[j].buf # <<>> => (gpc[j] = "done" /\ TookTimeout(j))
        /\ (gpc[j] = "done" /\ TookTimeout(j)) => Len(resultCh[j].buf) = 1

C35_Witness ==
    \E j \in Reqs :
        /\ gpc[j] = "done" /\ wpc[j] = "done"
        /\ hist.result[j].Err = "timeout"
        /\ Len(resultCh[j].buf) = 1

\* C36: if the engine call of a job returns before the 30 s of its deadline
\* have passed, the worker sends what the engine returned, the text or the
\* engine error, and not the timeout error.
C36_EarlyReturnWins ==
    \A j \in Reqs :
        hist.early[j] =>
            /\ wpc[j] \in {"send", "done"}
            /\ gpc[j] = "done" /\ resultCh[j].buf = <<>>
            /\ LET res == IF wpc[j] = "send" THEN wres[j] ELSE hist.result[j]
               IN  \/ res.Err = "engine_failed" /\ res.Text = <<>>
                   \/ res.Err = "nil" /\ res.Text \in {OwnText(k) : k \in Reqs}

C36_Witness ==
    \E j, k \in Reqs :
        /\ hist.early[j] /\ hist.result[j].Err = "engine_failed"
        /\ ~hist.late[j] /\ hist.waited[j] = CtxUnits - 1
        /\ hist.result[k].Err = "timeout"

\* C37: no worker answers "Tesseract OCR not initialized" to a job that came
\* through uploadHandler: a job is admitted only with a handle that is not
\* nil, and every job a worker holds or has held was processed with that
\* handle.
C37_WorkerSeesHandle ==
    \A j \in Reqs :
        /\ wres[j].Err # "not_initialized"
        /\ hist.result[j].Err # "not_initialized"
        /\ (st[j] \in {"validated", "queued"} \/ j \in Range(hist.enq) \/ wpc[j] # "none")
              => ocrClient # Nil

C37_Witness ==
    \E j, k \in Reqs :
        /\ ocrClient # Nil
        /\ wpc[j] = "done" /\ hist.calls[j] = 1 /\ hist.result[j].Err = "nil"
        /\ wpc[k] = "done" /\ hist.io[k] = "create_err"

\* C38: every outcome a handler writes for an admitted request, the Result of
\* the engine timeout and "processing timeout" included, is written before
\* the write deadline of its connection has passed.
C38_WrittenBeforeWriteDeadline ==
    \A r \in Reqs :
        (r \in Range(hist.enq) /\ st[r] \in {"completed", "timed_out"})
            => ~WriteDeadlinePassed(r)

====
